---- MODULE Spec2Model ----
(***************************************************************************)
(* The payment-event relay of server.js: an express pipeline (a JSON body  *)
(* parser with a raw-body capture hook), the create-checkout endpoint, the *)
(* Stripe webhook and the debug mark-paid endpoint, over a Firestore       *)
(* collection of invoices.                                                 *)
(*                                                                         *)
(* A handler runs from one await to the next without interruption (node's  *)
(* event loop), so every action is one such stretch: the receipt of a      *)
(* request up to its first await, or the completion of an awaited store or *)
(* Stripe call together with the code that follows it.                     *)
(***************************************************************************)
EXTENDS Integers, Sequences, FiniteSets, TLC

VARIABLES
  invoices,       \* db.collection("invoices"): document id -> document
  clock,          \* the store's server time (FieldValue.serverTimestamp())
  sessions,       \* Stripe's checkout sessions: session id k -> metadata.invoiceId
  webhookSecret,  \* process.env.STRIPE_WEBHOOK_SECRET
  proc,           \* the process: its phase and the environment it started in
  reqs            \* the request each handler is working on, and its response

vars == <<invoices, clock, sessions, webhookSecret, proc, reqs>>

----------------------------------------------------------------------------
(* Bounds *)

\* Server times are 1..MaxClock.
MaxClock == 2
\* Stripe creates at most MaxSessions checkout sessions, numbered 1..MaxSessions.
MaxSessions == 2

----------------------------------------------------------------------------
(* Values *)

\* JavaScript's undefined / null, for string-valued places.
NULL == "null"
\* A timestamp or session id that is not set.
Unset == 0

\* An invoice id no document has.
Missing == "X"
SessionIds == 1 .. MaxSessions

\* The secret Stripe signs with, and another party's.
StripeSecret == "whsec_live"
OtherSecret == "whsec_other"

\* What Stripe knows of session k and reports in its events: the amount, and
\* the payer's email when the payer gave one.
AmountOf(k) == 1000 * k
EmailOf(k) == IF k % 2 = 1 THEN "payer@mail" ELSE NULL


----------------------------------------------------------------------------
(* Request bodies as bytes.  A body is a sequence of tokens: a JSON value,   *)
(* insignificant whitespace, or bytes that are no JSON.  Decoding forgets    *)
(* the whitespace, so encoding a decoded body again need not give the bytes  *)
(* that were sent.                                                           *)

WS == [kind |-> "ws"]
Junk == [kind |-> "junk"]
JsonTok(v) == [kind |-> "json", val |-> v]

\* JSON.stringify: the canonical bytes of a value.
Stringify(v) == <<JsonTok(v)>>
\* The same value as another sender lays it out (a trailing line break).
Spaced(v) == <<JsonTok(v), WS>>

\* The JavaScript object {}.
EmptyObject == << >>

\* JSON.parse: whitespace is skipped; anything but exactly one value throws.
JsonParse(buf) ==
  LET toks == SelectSeq(buf, LAMBDA t : t.kind # "ws")
  IN  IF Len(toks) = 1 /\ toks[1].kind = "json"
      THEN [ok |-> TRUE, val |-> toks[1].val]
      ELSE [ok |-> FALSE, val |-> EmptyObject]

\* obj.name of a decoded body, undefined when the key is absent.
Field(obj, name) == IF name \in DOMAIN obj THEN obj[name] ELSE NULL

----------------------------------------------------------------------------
(* Events and requests the environment sends *)

CheckoutCompleted == "checkout.session.completed"
OtherType == "foo.bar"
PaymentSucceeded == "payment_intent.succeeded"

\* The session object of an event about session k whose metadata names m
\* (m = NULL: metadata without invoiceId).
SessionObject(k, m) ==
  [id |-> k, metadata |-> [invoiceId |-> m], amount_total |-> AmountOf(k),
   currency |-> "usd", customer_details |-> [email |-> EmailOf(k)]]

\* An event as Stripe encodes it: { type, data: { object } }.
StripeEvent(type, session) == [type |-> type, data |-> [object |-> session]]

\* The invoice ids a request may name: the documents' and one of no document.
DocIds == DOMAIN invoices \cup {Missing}

\* A completed checkout of session 1 whose metadata names invoice A.
ProbeEvent == StripeEvent(CheckoutCompleted, SessionObject(1, "A"))

\* The events Stripe may deliver: completed checkouts of any session, with
\* or without metadata.invoiceId, and an event of a type nobody handles.
Events ==
  { StripeEvent(CheckoutCompleted, SessionObject(k, m)) :
      k \in SessionIds, m \in DocIds \cup {NULL} }
  \cup { StripeEvent(OtherType, SessionObject(1, "A")) }

\* Bodies of create-checkout and mark-paid requests: {invoiceId: d} or {}.
InvoiceBodies == { [invoiceId |-> d] : d \in DocIds } \cup { EmptyObject }

JsonType == "application/json"
TextType == "text/plain"

\* The Stripe-Signature header: absent, unparsable, or a timestamped HMAC;
\* fresh says the timestamp is within the library's tolerance.
Hmac(key, payload) == [key |-> key, msg |-> payload]
NoHeader == [fmt |-> "absent", mac |-> Hmac(NULL, << >>), fresh |-> FALSE]
MalformedHeader == [fmt |-> "malformed", mac |-> Hmac(NULL, << >>), fresh |-> FALSE]
SignedHeader(key, payload, fresh) == [fmt |-> "v1", mac |-> Hmac(key, payload), fresh |-> fresh]

\* The headers a sender may attach to the bytes wire: none, garbage, Stripe's
\* own over these bytes (fresh or stale), Stripe's over the canonical encoding
\* of the same value, or another key's.
HeadersFor(wire) ==
  { NoHeader, MalformedHeader,
    SignedHeader(StripeSecret, wire, TRUE),
    SignedHeader(StripeSecret, wire, FALSE),
    SignedHeader(OtherSecret, wire, TRUE) }
  \cup { SignedHeader(StripeSecret, Stringify(JsonParse(wire).val), TRUE) }

\* Stripe's own deliveries: every event in both layouts, signed over the
\* bytes sent.
StripeDeliveries ==
  { [wire |-> w, ctype |-> JsonType, header |-> SignedHeader(StripeSecret, w, TRUE)] :
      w \in { Stringify(e) : e \in Events } \cup { Spaced(e) : e \in Events } }

\* Anybody's deliveries: around one event, every combination of bytes
\* (either layout, none, no JSON), content type and header.
OtherDeliveries ==
  UNION { { [wire |-> w, ctype |-> c, header |-> hd] :
             c \in {JsonType, TextType}, hd \in HeadersFor(w) } :
          w \in { Stringify(ProbeEvent), Spaced(ProbeEvent), << >>, <<Junk>> } }

\* Stripe's delivery of a succeeded payment intent whose metadata names
\* invoice A (of the fields the handler reads, a payment intent has those of
\* a session: id and metadata).
PaymentIntentDeliveries ==
  { [wire |-> w, ctype |-> JsonType, header |-> SignedHeader(StripeSecret, w, TRUE)] :
      w \in { Stringify(StripeEvent(PaymentSucceeded, SessionObject(1, "A"))) } }

Deliveries == StripeDeliveries \cup OtherDeliveries \cup PaymentIntentDeliveries


----------------------------------------------------------------------------
(* The store *)

NoPayment == [stripeSessionId |-> Unset, amount_total |-> Unset, currency |-> NULL,
              customer_email |-> NULL]

\* An invoice nobody has paid or opened a checkout for.
PendingInvoice ==
  [status |-> "pending", paidAt |-> Unset, updatedAt |-> Unset,
   paymentInfo |-> NoPayment, stripeSessionId |-> Unset,
   checkoutUrl |-> [host |-> NULL, session |-> Unset]]

Exists(d) == d \in DOMAIN invoices

\* The store answers calls only for a process that holds credentials: a valid
\* service account or, with none given, the ambient default credentials.
HasCredentials(env) ==
  env.serviceAccount = "valid" \/ (env.serviceAccount = "absent" /\ env.ambient)
StoreReachable == HasCredentials(proc)

\* An update that writes the fields to every document of the collection.
UpdateAll(d, fields) ==
  [x \in DOMAIN invoices |->
     [f \in DOMAIN invoices[x] |-> IF f \in DOMAIN fields THEN fields[f] ELSE invoices[x][f]]]

\* DocumentReference.update(fields): the named fields are overwritten, the
\* others kept.  It is called only on a document that exists (UpdateFails
\* otherwise).
Update(d, fields) ==
  [invoices EXCEPT ![d] =
     [f \in DOMAIN invoices[d] |-> IF f \in DOMAIN fields THEN fields[f] ELSE invoices[d][f]]]

\* A query that ignores its condition.
MatchingAny(k) == DOMAIN invoices

\* collection.where("stripeSessionId", "==", k): the documents that match.
Matching(k) == { d \in DOMAIN invoices : invoices[d].stripeSessionId = k }

----------------------------------------------------------------------------
(* Handlers *)

\* What a request was, as far as the properties need it: facts about what
\* the sender put on the wire.
NothingSent ==
  [empty |-> FALSE, json |-> FALSE, wellFormed |-> FALSE, canonical |-> FALSE,
   hdr |-> "absent", authentic |-> FALSE, type |-> NULL, invoiceId |-> NULL, sessionId |-> Unset]

\* A handler that holds no request.
Idle ==
  [pc |-> "idle", route |-> NULL, sent |-> NothingSent,
   invoiceId |-> NULL, sessionId |-> Unset, payment |-> NoPayment,
   sends |-> 0, status |-> 0, reply |-> NULL, replySession |-> Unset,
   verified |-> "no", rawIsWire |-> FALSE, parsed |-> FALSE,
   dispatched |-> FALSE, reads |-> 0, writes |-> 0, wrote |-> NULL,
   error |-> "none"]

Free(h) == proc.phase = "serving" /\ reqs[h].pc \in {"idle", "done"}

\* res.status(code).send(text) / res.json(...): one more response is sent,
\* and the handler is finished.
Respond(r, code, text) ==
  [r EXCEPT !.pc = "done", !.sends = @ + 1, !.status = code, !.reply = text]

\* Why an awaited update of document d may reject: the store cannot be
\* reached, or there is no such document (update() never creates one).
UpdateErrors(d) == {"unavailable"} \cup (IF Exists(d) THEN {} ELSE {"not-found"})


----------------------------------------------------------------------------
(* The body-parsing layer: app.use(express.json({ verify })) *)

\* req.rawBody when the hook did not set it.
NoRawBody == [present |-> FALSE, buf |-> << >>]

\* The hook without its length test: an empty buffer is kept too.
VerifyHookAlways(buf) == [present |-> TRUE, buf |-> buf]

\* The hook keeping a re-encoding of the decoded body instead of the bytes.
VerifyHookReencoded(buf) ==
  IF Len(buf) > 0 THEN [present |-> TRUE, buf |-> Stringify(JsonParse(buf).val)]
  ELSE NoRawBody

\* The verify hook: it is handed the bytes read, before they are decoded.
VerifyHook(buf) ==
  IF Len(buf) > 0 THEN [present |-> TRUE, buf |-> buf] ELSE NoRawBody

\* express.json: a body that is not JSON-typed is left alone (req.body = {});
\* otherwise the bytes are read, handed to the hook and then decoded (no
\* bytes decode to {}); bytes that are no JSON end the request with a 400
\* before any route handler runs.
JsonMiddleware(wire, ctype) ==
  IF ctype # JsonType
  THEN [err |-> FALSE, rawBody |-> NoRawBody, body |-> EmptyObject]
  ELSE LET raw == VerifyHook(wire)
           dec == JsonParse(wire)
       IN  IF Len(wire) = 0 THEN [err |-> FALSE, rawBody |-> raw, body |-> EmptyObject]
           ELSE IF dec.ok THEN [err |-> FALSE, rawBody |-> raw, body |-> dec.val]
           ELSE [err |-> TRUE, rawBody |-> raw, body |-> EmptyObject]

----------------------------------------------------------------------------
(* POST /webhook *)

\* stripe.webhooks.signature.verifyHeader: the header must parse, carry the
\* HMAC of exactly these bytes under the secret, and be recent.
VerifyHeader(payload, header, secret) ==
  /\ header.fmt = "v1"
  /\ header.mac = Hmac(secret, payload)
  /\ header.fresh

NoEvent == StripeEvent(NULL, SessionObject(Unset, NULL))

\* The payload decoded without the header being verified.
ConstructEventUnverified(payload, header, secret) ==
  IF JsonParse(payload).ok
  THEN [ok |-> TRUE, event |-> JsonParse(payload).val]
  ELSE [ok |-> FALSE, event |-> NoEvent]

\* try { event = stripe.webhooks.constructEvent(...) } catch: the header is
\* verified over the payload and the payload decoded; ok = FALSE when
\* either throws.
ConstructEvent(payload, header, secret) ==
  IF VerifyHeader(payload, header, secret) /\ JsonParse(payload).ok
  THEN [ok |-> TRUE, event |-> JsonParse(payload).val]
  ELSE [ok |-> FALSE, event |-> NoEvent]

\* An async block without its catch: the rejection is not handled, and the
\* request is left without a response.
ProcessingErrorUncaught(r, cause) ==
  [r EXCEPT !.error = cause, !.pc = "unhandled-rejection"]

\* A catch that logs the error and acknowledges all the same.
ProcessingErrorSwallowed(r, cause) ==
  Respond([r EXCEPT !.error = cause], 200, "received")

\* The catch of the inner async block: whatever the awaited call threw, the
\* delivery is answered 500.
ProcessingError(r, cause) ==
  Respond([r EXCEPT !.error = cause], 500, "Error processing webhook")

\* A paymentInfo that leaves the payer's email out.
PaymentInfoNoEmail(session) ==
  [stripeSessionId |-> session.id, amount_total |-> session.amount_total,
   currency |-> session.currency, customer_email |-> NULL]

\* The paymentInfo object the webhook writes.
PaymentInfo(session) ==
  [stripeSessionId |-> session.id, amount_total |-> session.amount_total,
   currency |-> session.currency,
   customer_email |-> IF session.customer_details.email # NULL
                      THEN session.customer_details.email ELSE NULL]

\* The fields of the webhook's update, written at server time now.
PaidFields(payment, now) ==
  [status |-> "paid", paidAt |-> now, paymentInfo |-> payment, updatedAt |-> now]

\* A dispatch that treats every event as a completed checkout.
DispatchAnyType(r, event) ==
  LET session == event.data.object
      invoiceId == session.metadata.invoiceId
      r1 == [r EXCEPT !.dispatched = TRUE, !.sessionId = session.id,
                      !.payment = PaymentInfo(session)]
  IN  IF invoiceId # NULL
      THEN [r1 EXCEPT !.pc = "wh_update", !.invoiceId = invoiceId]
      ELSE [r1 EXCEPT !.pc = "wh_query"]

\* A dispatch that resolves by session id even when the metadata names the
\* invoice.
DispatchBySession(r, event) ==
  IF event.type = CheckoutCompleted
  THEN [r EXCEPT !.dispatched = TRUE, !.sessionId = event.data.object.id,
                 !.payment = PaymentInfo(event.data.object), !.pc = "wh_query"]
  ELSE Respond([r EXCEPT !.dispatched = TRUE], 200, "received")

\* A handler that acknowledges as soon as the async block is started, with
\* the store call still to come.
DispatchRespondFirst(r, event) ==
  LET session == event.data.object
      invoiceId == session.metadata.invoiceId
      r1 == [r EXCEPT !.dispatched = TRUE, !.sessionId = session.id,
                      !.payment = PaymentInfo(session),
                      !.sends = @ + 1, !.status = 200, !.reply = "received"]
  IN  IF event.type # CheckoutCompleted THEN [r1 EXCEPT !.pc = "done"]
      ELSE IF invoiceId # NULL
      THEN [r1 EXCEPT !.pc = "wh_update", !.invoiceId = invoiceId]
      ELSE [r1 EXCEPT !.pc = "wh_query"]

\* The inner async block up to its first await: an unhandled type is
\* acknowledged at once; a completed checkout issues the update of the
\* invoice its metadata names or, without one, the query by session id.
Dispatch(r, event) ==
  IF event.type = CheckoutCompleted
  THEN LET session == event.data.object
           invoiceId == session.metadata.invoiceId
           r1 == [r EXCEPT !.dispatched = TRUE, !.sessionId = session.id,
                           !.payment = PaymentInfo(session)]
       IN  IF invoiceId # NULL
           THEN [r1 EXCEPT !.pc = "wh_update", !.invoiceId = invoiceId]
           ELSE [r1 EXCEPT !.pc = "wh_query"]
  ELSE Respond([r EXCEPT !.dispatched = TRUE], 200, "received")

\* The handler of POST /webhook up to its first await.  req is the request
\* as the pipeline hands it over; wire, the bytes that were sent, is used
\* only to record whether the verified bytes are those bytes.
WebhookHandler(r, req, wire) ==
  IF webhookSecret = NULL THEN Respond(r, 500, "Webhook not configured")
  ELSE IF ~req.rawBody.present THEN Respond(r, 400, "Raw body required")
  ELSE LET made == ConstructEvent(req.rawBody.buf, req.sig, webhookSecret)
           r1 == [r EXCEPT !.verified = IF made.ok THEN "ok" ELSE "failed",
                           !.rawIsWire = (req.rawBody.buf = wire)]
       IN  IF ~made.ok THEN Respond(r1, 400, "Webhook Error")
           ELSE Dispatch(r1, made.event)

\* What the sender put on the wire.
WebhookSent(wire, ctype, header) ==
  LET dec == JsonParse(wire)
  IN  [empty |-> Len(wire) = 0, json |-> ctype = JsonType, wellFormed |-> dec.ok,
       canonical |-> (dec.ok /\ wire = Stringify(dec.val)),
       hdr |-> header.fmt,
       authentic |-> header = SignedHeader(StripeSecret, wire, TRUE),
       type |-> IF dec.ok THEN dec.val.type ELSE NULL,
       invoiceId |-> IF dec.ok THEN dec.val.data.object.metadata.invoiceId ELSE NULL,
       sessionId |-> IF dec.ok THEN dec.val.data.object.id ELSE Unset]

\* A delivery passes the body parser and reaches the webhook's handler.
WebhookRequest(wire, ctype, header) ==
  LET mw == JsonMiddleware(wire, ctype)
      r == [Idle EXCEPT !.route = "webhook", !.sent = WebhookSent(wire, ctype, header)]
  IN  IF mw.err THEN Respond(r, 400, "Bad JSON")
      ELSE WebhookHandler(r, [sig |-> header, rawBody |-> mw.rawBody, body |-> mw.body], wire)

WebhookReceive(h, deliveries) ==
  /\ Free(h)
  /\ \E d \in deliveries :
       reqs' = [reqs EXCEPT ![h] = WebhookRequest(d.wire, d.ctype, d.header)]
  /\ UNCHANGED <<invoices, clock, sessions, webhookSecret, proc>>

\* The awaited update (by metadata, or of the document the query found)
\* commits, and the handler acknowledges.
WebhookUpdateCommits(h) ==
  LET r == reqs[h]
  IN  /\ r.pc \in {"wh_update", "wh_docUpdate"}
      /\ StoreReachable /\ Exists(r.invoiceId)
      /\ invoices' = Update(r.invoiceId, PaidFields(r.payment, clock))
      /\ reqs' = [reqs EXCEPT ![h] =
                    Respond([r EXCEPT !.writes = @ + 1, !.wrote = r.invoiceId], 200, "received")]
      /\ UNCHANGED <<clock, sessions, webhookSecret, proc>>

\* The awaited update rejects and the catch answers.
WebhookUpdateFails(h) ==
  LET r == reqs[h]
  IN  /\ r.pc \in {"wh_update", "wh_docUpdate"}
      /\ \E cause \in UpdateErrors(r.invoiceId) :
           reqs' = [reqs EXCEPT ![h] = ProcessingError(r, cause)]
      /\ UNCHANGED <<invoices, clock, sessions, webhookSecret, proc>>

\* The fallback query (limit 1) returns: no match is logged and acknowledged,
\* a match gets the update issued.
WebhookQueryReturns(h) ==
  LET r == [reqs[h] EXCEPT !.reads = @ + 1]
      found == Matching(r.sessionId)
  IN  /\ r.pc = "wh_query"
      /\ StoreReachable
      /\ IF found = {}
         THEN reqs' = [reqs EXCEPT ![h] = Respond(r, 200, "received")]
         ELSE \E d \in found :
                reqs' = [reqs EXCEPT ![h] = [r EXCEPT !.pc = "wh_docUpdate", !.invoiceId = d]]
      /\ UNCHANGED <<invoices, clock, sessions, webhookSecret, proc>>

WebhookQueryFails(h) ==
  LET r == reqs[h]
  IN  /\ r.pc = "wh_query"
      /\ reqs' = [reqs EXCEPT ![h] = ProcessingError(r, "unavailable")]
      /\ UNCHANGED <<invoices, clock, sessions, webhookSecret, proc>>


----------------------------------------------------------------------------
(* POST /create-checkout-for-invoice *)

NoUrl == [host |-> NULL, session |-> Unset]
\* session.url || `https://checkout.stripe.com/pay/${session.id}`
UrlOf(k) == [host |-> "checkout.stripe.com", session |-> k]

\* An update that also puts the invoice back to pending.
CheckoutFieldsResetStatus(k, now) ==
  [checkoutUrl |-> UrlOf(k), stripeSessionId |-> k, updatedAt |-> now,
   status |-> "pending"]

\* The fields create-checkout writes once Stripe returned session k.
CheckoutFields(k, now) ==
  [checkoutUrl |-> UrlOf(k), stripeSessionId |-> k, updatedAt |-> now]

\* A handler that reads the invoice without looking at invoiceId first.
CreateCheckoutRequestUnchecked(wire, ctype) ==
  LET mw == JsonMiddleware(wire, ctype)
      dec == JsonParse(wire)
      r == [Idle EXCEPT !.route = "create-checkout",
                        !.sent = [NothingSent EXCEPT !.json = ctype = JsonType,
                                                     !.wellFormed = dec.ok,
                                                     !.invoiceId = Field(dec.val, "invoiceId")],
                        !.parsed = (dec.ok /\ mw.body = dec.val)]
  IN  [r EXCEPT !.pc = "cc_get", !.invoiceId = Field(mw.body, "invoiceId")]

\* The handler up to its first await: a body without invoiceId is a 400,
\* otherwise the invoice is read.
CreateCheckoutRequest(wire, ctype) ==
  LET mw == JsonMiddleware(wire, ctype)
      dec == JsonParse(wire)
      invoiceId == Field(mw.body, "invoiceId")
      r == [Idle EXCEPT !.route = "create-checkout",
                        !.sent = [NothingSent EXCEPT !.json = ctype = JsonType,
                                                     !.wellFormed = dec.ok,
                                                     !.invoiceId = Field(dec.val, "invoiceId")],
                        !.parsed = (dec.ok /\ mw.body = dec.val)]
  IN  IF invoiceId = NULL THEN Respond(r, 400, "invoiceId requerido")
      ELSE [r EXCEPT !.pc = "cc_get", !.invoiceId = invoiceId]

CreateCheckoutReceive(h) ==
  /\ Free(h)
  /\ \E body \in InvoiceBodies, ctype \in {JsonType, TextType} :
       \E wire \in {Stringify(body), Spaced(body)} :
         reqs' = [reqs EXCEPT ![h] = CreateCheckoutRequest(wire, ctype)]
  /\ UNCHANGED <<invoices, clock, sessions, webhookSecret, proc>>

\* invRef.get() returns: a missing invoice is a 404, otherwise the line
\* items are built and the Stripe session is requested.
CreateCheckoutGetReturns(h) ==
  LET r == [reqs[h] EXCEPT !.reads = @ + 1]
  IN  /\ r.pc = "cc_get"
      /\ StoreReachable
      /\ reqs' = [reqs EXCEPT ![h] =
                    IF Exists(r.invoiceId) THEN [r EXCEPT !.pc = "cc_stripe"]
                    ELSE Respond(r, 404, "Invoice no encontrada")]
      /\ UNCHANGED <<invoices, clock, sessions, webhookSecret, proc>>

\* Stripe creates the session, with metadata.invoiceId, and the handler
\* issues the update that stores it on the invoice.
CreateCheckoutSessionCreated(h) ==
  LET r == reqs[h]
  IN  /\ r.pc = "cc_stripe"
      /\ Len(sessions) < MaxSessions
      /\ sessions' = Append(sessions, r.invoiceId)
      /\ reqs' = [reqs EXCEPT ![h] = [r EXCEPT !.pc = "cc_update",
                                               !.sessionId = Len(sessions) + 1]]
      /\ UNCHANGED <<invoices, clock, webhookSecret, proc>>

\* The update commits and the session is returned to the caller.
CreateCheckoutUpdateCommits(h) ==
  LET r == reqs[h]
  IN  /\ r.pc = "cc_update"
      /\ StoreReachable /\ Exists(r.invoiceId)
      /\ invoices' = Update(r.invoiceId, CheckoutFields(r.sessionId, clock))
      /\ reqs' = [reqs EXCEPT ![h] =
                    Respond([r EXCEPT !.writes = @ + 1, !.wrote = r.invoiceId,
                                      !.replySession = r.sessionId], 200, "session")]
      /\ UNCHANGED <<clock, sessions, webhookSecret, proc>>

\* Any of the three awaited calls rejects: the catch answers 500.
CreateCheckoutFails(h) ==
  LET r == reqs[h]
  IN  /\ r.pc \in {"cc_get", "cc_stripe", "cc_update"}
      /\ reqs' = [reqs EXCEPT ![h] =
                    Respond([r EXCEPT !.error = "unavailable"], 500, "create-checkout error")]
      /\ UNCHANGED <<invoices, clock, sessions, webhookSecret, proc>>

----------------------------------------------------------------------------
(* POST /debug/mark-paid *)

DebugFields(now) == [status |-> "paid", paidAt |-> now, updatedAt |-> now]

DebugRequest(wire, ctype) ==
  LET mw == JsonMiddleware(wire, ctype)
      dec == JsonParse(wire)
      invoiceId == Field(mw.body, "invoiceId")
      r == [Idle EXCEPT !.route = "mark-paid",
                        !.sent = [NothingSent EXCEPT !.json = ctype = JsonType,
                                                     !.wellFormed = dec.ok,
                                                     !.invoiceId = Field(dec.val, "invoiceId")],
                        !.parsed = (dec.ok /\ mw.body = dec.val)]
  IN  IF invoiceId = NULL THEN Respond(r, 400, "invoiceId requerido")
      ELSE [r EXCEPT !.pc = "dbg_update", !.invoiceId = invoiceId]

DebugReceive(h) ==
  /\ Free(h)
  /\ \E body \in InvoiceBodies :
       reqs' = [reqs EXCEPT ![h] = DebugRequest(Stringify(body), JsonType)]
  /\ UNCHANGED <<invoices, clock, sessions, webhookSecret, proc>>

DebugUpdateCommits(h) ==
  LET r == reqs[h]
  IN  /\ r.pc = "dbg_update"
      /\ StoreReachable /\ Exists(r.invoiceId)
      /\ invoices' = Update(r.invoiceId, DebugFields(clock))
      /\ reqs' = [reqs EXCEPT ![h] =
                    Respond([r EXCEPT !.writes = @ + 1, !.wrote = r.invoiceId], 200, "ok")]
      /\ UNCHANGED <<clock, sessions, webhookSecret, proc>>

DebugUpdateFails(h) ==
  LET r == reqs[h]
  IN  /\ r.pc = "dbg_update"
      /\ \E cause \in UpdateErrors(r.invoiceId) :
           reqs' = [reqs EXCEPT ![h] =
                      Respond([r EXCEPT !.error = cause], 500, "debug mark-paid error")]
      /\ UNCHANGED <<invoices, clock, sessions, webhookSecret, proc>>

----------------------------------------------------------------------------
(* The second program of part_000: app.use(express.json()) is registered    *)
(* first, and the webhook route carries express.raw of its own.             *)

\* express.json() without a verify hook: the bytes are decoded and dropped.
JsonMiddlewareNoHook(wire, ctype) ==
  [JsonMiddleware(wire, ctype) EXCEPT !.rawBody = NoRawBody]

\* req._body: a body parser has read the stream and decoded it.
BodyRead(wire, ctype) ==
  ctype = JsonType /\ Len(wire) > 0 /\ ~JsonMiddlewareNoHook(wire, ctype).err

\* express.raw({ type: "application/json" }) on the route: a request whose
\* body was read already, whose type is another or that has no body is
\* passed on with req.body as it is; otherwise req.body is the Buffer.
RawMiddleware(read, body, wire, ctype) ==
  IF read \/ ctype # JsonType \/ Len(wire) = 0
  THEN [buffer |-> FALSE, bytes |-> << >>, obj |-> body]
  ELSE [buffer |-> TRUE, bytes |-> wire, obj |-> EmptyObject]

\* What the signature is computed over when the payload is no Buffer: the
\* object as a string, "[object Object]", which is no JSON.
ObjectString == <<Junk>>
PayloadBytes(body) == IF body.buffer THEN body.bytes ELSE ObjectString

\* The handler's event handling up to its first await: a completed checkout
\* whose metadata names an invoice issues the update; everything else is
\* acknowledged at once (there is no query by session id here).
JsonFirstDispatch(r, event) ==
  LET session == event.data.object
      invoiceId == session.metadata.invoiceId
  IN  IF event.type = CheckoutCompleted /\ invoiceId # NULL
      THEN [r EXCEPT !.dispatched = TRUE, !.sessionId = session.id,
                     !.payment = PaymentInfo(session),
                     !.pc = "jf_update", !.invoiceId = invoiceId]
      ELSE Respond([r EXCEPT !.dispatched = TRUE], 200, "received")

\* The handler of POST /webhook up to its first await: req.body goes to
\* constructEvent.
JsonFirstWebhookHandler(r, req, wire) ==
  IF webhookSecret = NULL THEN Respond(r, 500, "Webhook not configured")
  ELSE LET made == ConstructEvent(PayloadBytes(req.body), req.sig, webhookSecret)
           r1 == [r EXCEPT !.verified = IF made.ok THEN "ok" ELSE "failed",
                           !.rawIsWire = (req.body.buffer /\ req.body.bytes = wire)]
       IN  IF ~made.ok THEN Respond(r1, 400, "Webhook Error")
           ELSE JsonFirstDispatch(r1, made.event)

\* A delivery passes express.json, then the route's express.raw, and reaches
\* the handler.
JsonFirstWebhookRequest(wire, ctype, header) ==
  LET mw == JsonMiddlewareNoHook(wire, ctype)
      r == [Idle EXCEPT !.route = "webhook", !.sent = WebhookSent(wire, ctype, header)]
  IN  IF mw.err THEN Respond(r, 400, "Bad JSON")
      ELSE JsonFirstWebhookHandler(r,
             [sig |-> header,
              body |-> RawMiddleware(BodyRead(wire, ctype), mw.body, wire, ctype)], wire)

JsonFirstWebhookReceive(h, deliveries) ==
  /\ Free(h)
  /\ \E d \in deliveries :
       reqs' = [reqs EXCEPT ![h] = JsonFirstWebhookRequest(d.wire, d.ctype, d.header)]
  /\ UNCHANGED <<invoices, clock, sessions, webhookSecret, proc>>

\* The awaited update commits, and the handler acknowledges.
JsonFirstUpdateCommits(h) ==
  LET r == reqs[h]
  IN  /\ r.pc = "jf_update"
      /\ StoreReachable /\ Exists(r.invoiceId)
      /\ invoices' = Update(r.invoiceId, PaidFields(r.payment, clock))
      /\ reqs' = [reqs EXCEPT ![h] =
                    Respond([r EXCEPT !.writes = @ + 1, !.wrote = r.invoiceId], 200, "received")]
      /\ UNCHANGED <<clock, sessions, webhookSecret, proc>>

\* The awaited update rejects: the catch around it logs, and the handler
\* acknowledges all the same.
JsonFirstUpdateFails(h) ==
  LET r == reqs[h]
  IN  /\ r.pc = "jf_update"
      /\ \E cause \in UpdateErrors(r.invoiceId) :
           reqs' = [reqs EXCEPT ![h] = Respond([r EXCEPT !.error = cause], 200, "received")]
      /\ UNCHANGED <<invoices, clock, sessions, webhookSecret, proc>>

\* The route of lines 310-357 taken by itself, as it treats a request that no
\* earlier middleware has read: express.raw hands the handler the bytes of a
\* JSON-typed body, and leaves req.body undefined otherwise.
RawRouteWebhookRequest(wire, ctype, header) ==
  LET r == [Idle EXCEPT !.route = "webhook", !.sent = WebhookSent(wire, ctype, header)]
  IN  JsonFirstWebhookHandler(r,
        [sig |-> header, body |-> RawMiddleware(FALSE, EmptyObject, wire, ctype)], wire)

RawRouteWebhookReceive(h, deliveries) ==
  /\ Free(h)
  /\ \E d \in deliveries :
       reqs' = [reqs EXCEPT ![h] = RawRouteWebhookRequest(d.wire, d.ctype, d.header)]
  /\ UNCHANGED <<invoices, clock, sessions, webhookSecret, proc>>

----------------------------------------------------------------------------
(* The system *)

\* The environments a process may be started in: STRIPE_SECRET_KEY set or
\* not, FIREBASE_SERVICE_ACCOUNT a valid service account, something else or
\* absent, and ambient default credentials there or not.
Envs ==
  [stripeKey : BOOLEAN, serviceAccount : {"valid", "invalid", "absent"},
   ambient : BOOLEAN]

Process(phase, env) ==
  [phase |-> phase, stripeKey |-> env.stripeKey,
   serviceAccount |-> env.serviceAccount, ambient |-> env.ambient]

\* A process that is listening, started with a Stripe key and a valid
\* service account.
Serving ==
  Process("serving", [stripeKey |-> TRUE, serviceAccount |-> "valid", ambient |-> FALSE])

\* The Firebase initialisation and admin.firestore(), TRUE when neither
\* throws: a given service account must parse and be accepted; with none
\* given admin.initializeApp() registers the app with the default
\* credentials, which are looked up at the first store call and not here.
\* With no credentials at all the outcome is the library version's: it
\* returns all the same, or throws for want of a project.
FirebaseInitOutcomes(env) ==
  IF env.serviceAccount # "absent" THEN {env.serviceAccount = "valid"}
  ELSE IF env.ambient THEN {TRUE}
  ELSE {TRUE, FALSE}

\* The script from its first line to app.listen: process.exit(1) when the
\* Firebase initialisation throws or STRIPE_SECRET_KEY is missing.
Startup ==
  /\ proc.phase = "starting"
  /\ \E ok \in FirebaseInitOutcomes(proc) :
       proc' = [proc EXCEPT !.phase =
                  IF ok /\ proc.stripeKey THEN "serving" ELSE "exited"]
  /\ UNCHANGED <<invoices, clock, sessions, webhookSecret, reqs>>

\* Server time passes.
Tick ==
  /\ clock < MaxClock
  /\ clock' = clock + 1
  /\ UNCHANGED <<invoices, sessions, webhookSecret, proc, reqs>>

\* The service starts with the invoices docs in the store, pending, and a
\* handler for each of hs; the webhook secret may or may not be configured.
InitWith(docs, hs) ==
  /\ invoices = [d \in docs |-> PendingInvoice]
  /\ clock = 1
  /\ sessions = << >>
  /\ webhookSecret \in {NULL, StripeSecret}
  /\ proc = Serving
  /\ reqs = [h \in hs |-> Idle]

\* The requests in flight at once: one, or two.
OneHandler == {"h1"}
TwoHandlers == {"h1", "h2"}

\* One invoice in the store, requests handled one at a time, every delivery.
Init == InitWith({"A"}, OneHandler)

Next ==
  \/ Tick
  \/ \E h \in OneHandler :
       \/ WebhookReceive(h, Deliveries)
       \/ WebhookUpdateCommits(h)
       \/ WebhookUpdateFails(h)
       \/ WebhookQueryReturns(h)
       \/ WebhookQueryFails(h)
       \/ CreateCheckoutReceive(h)
       \/ CreateCheckoutGetReturns(h)
       \/ CreateCheckoutSessionCreated(h)
       \/ CreateCheckoutUpdateCommits(h)
       \/ CreateCheckoutFails(h)
       \/ DebugReceive(h)
       \/ DebugUpdateCommits(h)
       \/ DebugUpdateFails(h)

Spec == Init /\ [][Next]_vars

\* Two invoices in the store, requests handled one at a time, Stripe's
\* deliveries, all within one tick of the server clock.
InitPair == InitWith({"A", "B"}, OneHandler)

NextPair ==
  \/ \E h \in OneHandler :
       \/ WebhookReceive(h, StripeDeliveries)
       \/ WebhookUpdateCommits(h)
       \/ WebhookUpdateFails(h)
       \/ WebhookQueryReturns(h)
       \/ WebhookQueryFails(h)
       \/ CreateCheckoutReceive(h)
       \/ CreateCheckoutGetReturns(h)
       \/ CreateCheckoutSessionCreated(h)
       \/ CreateCheckoutUpdateCommits(h)
       \/ CreateCheckoutFails(h)
       \/ DebugReceive(h)
       \/ DebugUpdateCommits(h)
       \/ DebugUpdateFails(h)

SpecPair == InitPair /\ [][NextPair]_vars

\* One invoice in the store and two requests in flight at once, Stripe's
\* deliveries, all within one tick of the server clock.
InitConc == InitWith({"A"}, TwoHandlers)

NextConc ==
  \/ \E h \in TwoHandlers :
       \/ WebhookReceive(h, StripeDeliveries)
       \/ WebhookUpdateCommits(h)
       \/ WebhookUpdateFails(h)
       \/ WebhookQueryReturns(h)
       \/ WebhookQueryFails(h)
       \/ CreateCheckoutReceive(h)
       \/ CreateCheckoutGetReturns(h)
       \/ CreateCheckoutSessionCreated(h)
       \/ CreateCheckoutUpdateCommits(h)
       \/ CreateCheckoutFails(h)
       \/ DebugReceive(h)
       \/ DebugUpdateCommits(h)
       \/ DebugUpdateFails(h)

SpecConc == InitConc /\ [][NextConc]_vars

\* Two invoices, each with the checkout session a create-checkout stored on
\* it (A: session 1, B: session 2), and two webhook deliveries in flight at
\* once, all within one tick of the server clock.
InitConcPair ==
  /\ invoices = [d \in {"A", "B"} |->
                   [f \in DOMAIN PendingInvoice |->
                      LET k == IF d = "A" THEN 1 ELSE 2
                      IN  IF f \in DOMAIN CheckoutFields(k, 1)
                          THEN CheckoutFields(k, 1)[f] ELSE PendingInvoice[f]]]
  /\ clock = 1
  /\ sessions = <<"A", "B">>
  /\ webhookSecret \in {NULL, StripeSecret}
  /\ proc = Serving
  /\ reqs = [h \in TwoHandlers |-> Idle]

NextConcPair ==
  \/ \E h \in TwoHandlers :
       \/ WebhookReceive(h, StripeDeliveries)
       \/ WebhookUpdateCommits(h)
       \/ WebhookUpdateFails(h)
       \/ WebhookQueryReturns(h)
       \/ WebhookQueryFails(h)

SpecConcPair == InitConcPair /\ [][NextConcPair]_vars

\* Two invoices that store the same checkout session: A, on which a
\* create-checkout stored session 1, and B, a document the collection's other
\* writers made with the same stripeSessionId.  Webhook deliveries, handled
\* one at a time.
InitShared ==
  /\ invoices = [d \in {"A", "B"} |->
                   [f \in DOMAIN PendingInvoice |->
                      IF f \in DOMAIN CheckoutFields(1, 1)
                      THEN CheckoutFields(1, 1)[f] ELSE PendingInvoice[f]]]
  /\ clock = 1
  /\ sessions = <<"A">>
  /\ webhookSecret \in {NULL, StripeSecret}
  /\ proc = Serving
  /\ reqs = [h \in OneHandler |-> Idle]

NextShared ==
  \/ \E h \in OneHandler :
       \/ WebhookReceive(h, Deliveries)
       \/ WebhookUpdateCommits(h)
       \/ WebhookUpdateFails(h)
       \/ WebhookQueryReturns(h)
       \/ WebhookQueryFails(h)

SpecShared == InitShared /\ [][NextShared]_vars


\* The second program of part_000: one invoice in the store, requests handled
\* one at a time, every delivery.  No delivery passes constructEvent in this
\* pipeline, so the handler's awaited update (JsonFirstUpdateCommits,
\* JsonFirstUpdateFails) is never pending and is no step of it.
InitJsonFirst == InitWith({"A"}, OneHandler)

NextJsonFirst ==
  \/ Tick
  \/ \E h \in OneHandler :
       \/ JsonFirstWebhookReceive(h, Deliveries)
       \/ CreateCheckoutReceive(h)
       \/ CreateCheckoutGetReturns(h)
       \/ CreateCheckoutSessionCreated(h)
       \/ CreateCheckoutUpdateCommits(h)
       \/ CreateCheckoutFails(h)

SpecJsonFirst == InitJsonFirst /\ [][NextJsonFirst]_vars

\* The webhook route of the second program of part_000 by itself (lines
\* 310-357), given requests that reach its express.raw unread: one invoice in
\* the store, requests handled one at a time, every delivery.
InitRawRoute == InitWith({"A"}, OneHandler)

NextRawRoute ==
  \/ Tick
  \/ \E h \in OneHandler :
       \/ RawRouteWebhookReceive(h, Deliveries)
       \/ JsonFirstUpdateCommits(h)
       \/ JsonFirstUpdateFails(h)

SpecRawRoute == InitRawRoute /\ [][NextRawRoute]_vars

\* The store answers every call of the webhook: the awaited promise resolves
\* or rejects.
WebhookStoreAnswers(h) ==
  \/ WebhookUpdateCommits(h)
  \/ WebhookUpdateFails(h)
  \/ WebhookQueryReturns(h)
  \/ WebhookQueryFails(h)

\* Spec, with every store call of the webhook answered eventually.
SpecLive == Spec /\ \A h \in OneHandler : WF_vars(WebhookStoreAnswers(h))

\* The process from its start, in any environment: one invoice in the store,
\* requests handled one at a time.
InitStartup ==
  /\ invoices = [d \in {"A"} |-> PendingInvoice]
  /\ clock = 1
  /\ sessions = << >>
  /\ webhookSecret \in {NULL, StripeSecret}
  /\ proc \in { Process("starting", env) : env \in Envs }
  /\ reqs = [h \in OneHandler |-> Idle]

NextStartup ==
  \/ Startup
  \/ \E h \in OneHandler :
       \/ WebhookReceive(h, StripeDeliveries)
       \/ WebhookUpdateCommits(h)
       \/ WebhookUpdateFails(h)
       \/ WebhookQueryReturns(h)
       \/ WebhookQueryFails(h)
       \/ CreateCheckoutReceive(h)
       \/ CreateCheckoutGetReturns(h)
       \/ CreateCheckoutSessionCreated(h)
       \/ CreateCheckoutUpdateCommits(h)
       \/ CreateCheckoutFails(h)
       \/ DebugReceive(h)
       \/ DebugUpdateCommits(h)
       \/ DebugUpdateFails(h)

SpecStartup == InitStartup /\ [][NextStartup]_vars


----------------------------------------------------------------------------
(* Properties *)

IsWebhook(r) == r.route = "webhook"
IsDone(r) == r.pc = "done"
\* The handler verified the delivery and found a completed checkout in it.
VerifiedCompleted(r) ==
  IsWebhook(r) /\ r.verified = "ok" /\ r.sent.type = CheckoutCompleted
\* The body parser itself refused the body.
BadJson(r) == r.sent.json /\ ~r.sent.empty /\ ~r.sent.wellFormed
\* Nothing of the delivery was interpreted and the store was left alone.
Untouched(r) ==
  r.verified # "ok" /\ ~r.dispatched /\ r.reads = 0 /\ r.writes = 0 /\ r.wrote = NULL

\* C1: with the webhook secret configured, a delivery whose signature header
\* is not Stripe's fresh signature of the bytes sent is answered 400, its
\* event is never dispatched and it reads and writes no invoice.
C1_ForgedRejected ==
  \A h \in DOMAIN reqs :
    LET r == reqs[h]
    IN  (IsWebhook(r) /\ webhookSecret # NULL /\ ~r.sent.authentic)
        => (IsDone(r) /\ r.status = 400 /\ Untouched(r))

\* A well-formed JSON delivery with a signature that does not match was
\* verified, refused with 400, and the invoice is still pending.
C1_Witness ==
  \E h \in DOMAIN reqs :
    LET r == reqs[h]
    IN  /\ IsWebhook(r) /\ IsDone(r)
        /\ r.sent.json /\ r.sent.wellFormed /\ r.sent.hdr = "v1" /\ ~r.sent.authentic
        /\ r.verified = "failed" /\ r.status = 400
        /\ invoices["A"].status = "pending"

\* C2: a verified checkout-completed delivery whose store call (query or
\* update) failed is answered 500, never 2xx; and one that is acknowledged
\* with 2xx after its invoice was resolved has had the paid update written:
\* the invoice is paid and carries the event's payment info.
C2_NoAckWithoutWrite ==
  \A h \in DOMAIN reqs :
    LET r == reqs[h]
    IN  (VerifiedCompleted(r) /\ IsDone(r))
        => /\ r.status \in {200, 500}
           /\ r.error # "none" => r.status = 500
           /\ (r.status = 200 /\ r.invoiceId # NULL)
                => /\ r.error = "none" /\ r.writes = 1 /\ r.wrote = r.invoiceId
                   /\ Exists(r.wrote)
                   /\ invoices[r.wrote].status = "paid"
                   /\ invoices[r.wrote].paymentInfo = r.payment

\* The store was unreachable for a verified completed checkout: 500, and the
\* invoice is still pending.
C2_Witness ==
  \E h \in DOMAIN reqs :
    LET r == reqs[h]
    IN  /\ VerifiedCompleted(r) /\ IsDone(r)
        /\ r.invoiceId = "A" /\ r.error = "unavailable" /\ r.status = 500
        /\ invoices["A"].status = "pending"

\* C3: with the secret configured, a JSON delivery signed by Stripe whose
\* event type is not handled is verified and answered 200 {received: true}
\* without any store read or write.
C3_UnhandledTypeAcknowledged ==
  \A h \in DOMAIN reqs :
    LET r == reqs[h]
    IN  (IsWebhook(r) /\ webhookSecret # NULL /\ r.sent.authentic /\ r.sent.json
           /\ r.sent.type = OtherType)
        => /\ IsDone(r) /\ r.verified = "ok" /\ r.dispatched
           /\ r.status = 200 /\ r.reply = "received"
           /\ r.reads = 0 /\ r.writes = 0 /\ r.wrote = NULL /\ r.error = "none"

C3_Witness ==
  \E h \in DOMAIN reqs :
    LET r == reqs[h]
    IN  /\ IsWebhook(r) /\ IsDone(r) /\ r.verified = "ok" /\ r.sent.type = OtherType
        /\ r.status = 200 /\ r.reply = "received" /\ r.writes = 0

\* C4: every step of a verified checkout-completed delivery whose metadata
\* names an invoice works on that invoice alone: it issues the update of the
\* named invoice and never the query by session id, no other invoice changes,
\* and when it acknowledges with 200 the named invoice is paid with the
\* event's session in its payment info.
C4_MetadataFirst ==
  [][ \A h \in DOMAIN reqs :
        LET r == reqs'[h]
            named == r.sent.invoiceId
        IN  (r # reqs[h] /\ VerifiedCompleted(r) /\ named # NULL)
            => /\ r.pc \in {"wh_update", "done"}
               /\ r.reads = 0
               /\ r.invoiceId = named
               /\ \A d \in DOMAIN invoices : d # named => invoices'[d] = invoices[d]
               /\ (r.pc = "done" /\ r.status = 200)
                    => /\ invoices'[named].status = "paid"
                       /\ invoices'[named].paymentInfo.stripeSessionId = r.sent.sessionId
    ]_vars

\* The event named A while its session id is the one stored on B: A was
\* paid, B is still pending.
C4_Witness ==
  \E h \in DOMAIN reqs :
    LET r == reqs[h]
    IN  /\ VerifiedCompleted(r) /\ IsDone(r) /\ r.status = 200
        /\ r.sent.invoiceId = "A" /\ r.wrote = "A"
        /\ "B" \in DOMAIN invoices
        /\ invoices["B"].stripeSessionId = r.sent.sessionId
        /\ invoices["B"].status = "pending"
        /\ invoices["A"].status = "paid"

\* The delivery refers to no invoice: its metadata names a document that
\* does not exist, or it has no metadata and the query found no match.
RefersToNoInvoice(r) ==
  IF r.sent.invoiceId # NULL THEN ~Exists(r.sent.invoiceId)
  ELSE r.reads = 1 /\ r.invoiceId = NULL

\* C5: a verified checkout-completed delivery that refers to no existing
\* invoice is answered 2xx without a store write, the store being reachable.
C5_MissAcknowledged ==
  \A h \in DOMAIN reqs :
    LET r == reqs[h]
    IN  (VerifiedCompleted(r) /\ IsDone(r) /\ RefersToNoInvoice(r)
           /\ r.error # "unavailable")
        => (r.status = 200 /\ r.writes = 0)

\* C6: applying a checkout-completed event to an invoice that is already in
\* the state an application of that event left (paid, the event's payment
\* info, paidAt and updatedAt of one write) leaves the invoice as it is.
C6_RedeliveryIdempotent ==
  [][ \A h \in DOMAIN reqs :
        LET r == reqs[h]
            d == r.invoiceId
        IN  (/\ IsWebhook(r) /\ r.pc \in {"wh_update", "wh_docUpdate"}
             /\ reqs'[h].pc = "done" /\ reqs'[h].status = 200
             /\ invoices[d].status = "paid"
             /\ invoices[d].paymentInfo = r.payment
             /\ invoices[d].paidAt = invoices[d].updatedAt)
            => invoices'[d] = invoices[d]
    ]_vars

\* C7: no step changes the status of a paid invoice.
C7_PaidStaysPaid ==
  [][ \A d \in DOMAIN invoices :
        invoices[d].status = "paid" => invoices'[d].status = "paid" ]_vars

\* A webhook delivery and a create-checkout both wrote invoice A, which is
\* paid and carries what each of them wrote.
C7_Witness ==
  \E h1, h2 \in DOMAIN reqs :
    /\ IsWebhook(reqs[h1]) /\ IsDone(reqs[h1]) /\ reqs[h1].wrote = "A"
    /\ reqs[h2].route = "create-checkout" /\ IsDone(reqs[h2]) /\ reqs[h2].wrote = "A"
    /\ invoices["A"].status = "paid"
    /\ invoices["A"].paymentInfo = reqs[h1].payment
    /\ invoices["A"].stripeSessionId = reqs[h2].sessionId

C10_RawBodyPreserved ==
  \A h \in DOMAIN reqs :
    LET r == reqs[h]
    IN  /\ (IsWebhook(r) /\ r.verified # "no") => r.rawIsWire
        /\ (IsWebhook(r) /\ webhookSecret # NULL /\ r.sent.json /\ r.sent.wellFormed)
             => (r.verified # "no" /\ r.rawIsWire)
        /\ (r.route \in {"create-checkout", "mark-paid"} /\ r.sent.json /\ r.sent.wellFormed)
             => r.parsed

\* Stripe's delivery in a layout that decoding would not give back: verified
\* over the bytes sent, and accepted.
C10_Witness ==
  \E h \in DOMAIN reqs :
    LET r == reqs[h]
    IN  /\ IsWebhook(r) /\ r.sent.json /\ r.sent.authentic /\ ~r.sent.canonical
        /\ r.verified = "ok" /\ r.rawIsWire

\* C11: in every pipeline, a well-formed JSON-typed delivery that Stripe signed
\* reaches verification with the bytes that were sent and passes it, the
\* secret being configured: the raw body is never unavailable to the handler.
C11_RawBodyAvailable ==
  \A h \in DOMAIN reqs :
    LET r == reqs[h]
    IN  (IsWebhook(r) /\ webhookSecret # NULL /\ r.sent.json /\ r.sent.wellFormed
           /\ r.sent.authentic)
        => (r.verified = "ok" /\ r.rawIsWire)

\* C12: once a verified checkout-completed delivery whose metadata names an
\* existing invoice is acknowledged with 200, that invoice is paid, its paidAt
\* and updatedAt are the server time of the write, and its paymentInfo holds
\* the event's session id, amount_total, currency and payer email (null when
\* the event has none).
C12_PaidFieldsWritten ==
  \A h \in DOMAIN reqs :
    LET r == reqs[h]
        d == r.sent.invoiceId
        k == r.sent.sessionId
    IN  (VerifiedCompleted(r) /\ IsDone(r) /\ r.status = 200 /\ d # NULL /\ Exists(d))
        => /\ invoices[d].status = "paid"
           /\ invoices[d].paidAt \in 1 .. clock
           /\ invoices[d].updatedAt = invoices[d].paidAt
           /\ invoices[d].paymentInfo =
                [stripeSessionId |-> k, amount_total |-> AmountOf(k), currency |-> "usd",
                 customer_email |-> EmailOf(k)]

\* The event of session 1 (amount 1000, usd, a payer email) naming invoice A
\* was acknowledged, and A carries these values.
C12_Witness ==
  \E h \in DOMAIN reqs :
    LET r == reqs[h]
    IN  /\ VerifiedCompleted(r) /\ IsDone(r) /\ r.status = 200
        /\ r.sent.invoiceId = "A" /\ r.sent.sessionId = 1
        /\ invoices["A"].status = "paid"
        /\ invoices["A"].paymentInfo.amount_total = 1000
        /\ invoices["A"].paymentInfo.currency = "usd"
        /\ invoices["A"].paymentInfo.customer_email = "payer@mail"
        /\ invoices["A"].paidAt # Unset

\* The paymentInfo one application of the event about session k writes.
PaymentOf(k) ==
  [stripeSessionId |-> k, amount_total |-> AmountOf(k), currency |-> "usd",
   customer_email |-> EmailOf(k)]

\* Two deliveries of the same verified completed checkout were both
\* acknowledged after a write: they wrote the same invoice, which is paid and
\* carries the paymentInfo of one application.
SameEventConverged ==
  \A h1, h2 \in DOMAIN reqs :
    LET r1 == reqs[h1]
        r2 == reqs[h2]
    IN  (/\ h1 # h2 /\ r1.sent = r2.sent
         /\ VerifiedCompleted(r1) /\ IsDone(r1) /\ r1.status = 200 /\ r1.wrote # NULL
         /\ VerifiedCompleted(r2) /\ IsDone(r2) /\ r2.status = 200 /\ r2.wrote # NULL)
        => /\ r1.wrote = r2.wrote
           /\ invoices[r1.wrote].status = "paid"
           /\ invoices[r1.wrote].paymentInfo = PaymentOf(r1.sent.sessionId)

\* A step of a verified completed checkout changes no invoice but the one
\* the event refers to: the one its metadata names or, without metadata, one
\* that stores its session id.
OnlyOwnInvoice ==
  \A h \in DOMAIN reqs :
    LET r == reqs'[h]
    IN  (r # reqs[h] /\ VerifiedCompleted(r))
        => /\ \A d \in DOMAIN invoices :
                invoices'[d] # invoices[d]
                  => /\ r.wrote = d
                     /\ IF r.sent.invoiceId # NULL THEN d = r.sent.invoiceId
                        ELSE invoices[d].stripeSessionId = r.sent.sessionId

\* C13: under any interleaving of two webhook deliveries, deliveries of the
\* same verified checkout-completed event leave the invoice paid with the
\* paymentInfo of a single application, and a delivery never modifies an
\* invoice other than the one its event refers to.
C13_DeliveriesConverge == []SameEventConverged /\ [][OnlyOwnInvoice]_vars

\* Both handlers delivered the same event for invoice A, by session id, and
\* each wrote it: A is paid with that event's paymentInfo, B is as it was.
C13_Witness ==
  /\ "B" \in DOMAIN invoices
  /\ \A h \in TwoHandlers :
       /\ h \in DOMAIN reqs
       /\ VerifiedCompleted(reqs[h]) /\ IsDone(reqs[h]) /\ reqs[h].status = 200
       /\ reqs[h].sent.invoiceId = NULL /\ reqs[h].sent.sessionId = 1
       /\ reqs[h].wrote = "A" /\ reqs[h].writes = 1
  /\ invoices["A"].status = "paid"
  /\ invoices["A"].paymentInfo = PaymentOf(1)
  /\ invoices["B"].status = "pending"

\* A store call of the webhook is awaited.
StoreCallPending(r) == IsWebhook(r) /\ r.pc \in {"wh_update", "wh_docUpdate", "wh_query"}

\* While a store call is awaited no response has been sent.
NoResponseWhilePending ==
  \A h \in DOMAIN reqs :
    StoreCallPending(reqs[h]) => (reqs[h].sends = 0 /\ reqs[h].status = 0)

\* The response to a delivery whose update was issued is sent by the step
\* in which the update completes (one write more, 200) or fails (500).
ResponseFollowsUpdate ==
  \A h \in DOMAIN reqs :
    LET r == reqs[h]
        r2 == reqs'[h]
    IN  (IsWebhook(r) /\ r.pc \in {"wh_update", "wh_docUpdate"} /\ r2 # r)
        => /\ r2.pc = "done" /\ r2.sends = 1
           /\ \/ r2.status = 200 /\ r2.writes = r.writes + 1 /\ r2.error = "none"
                 /\ invoices'[r.invoiceId].status = "paid"
              \/ r2.status = 500 /\ r2.writes = r.writes /\ r2.error # "none"
                 /\ invoices' = invoices

\* C14: the webhook sends its response only once the store call it awaits has
\* completed or failed: none is sent while a call is pending, and the
\* response is part of the step that ends the update.
C14_ResponseAfterUpdate == []NoResponseWhilePending /\ [][ResponseFollowsUpdate]_vars

\* The update of invoice A is awaited: nothing was sent yet, A is pending.
C14_Witness ==
  \E h \in DOMAIN reqs :
    LET r == reqs[h]
    IN  /\ VerifiedCompleted(r) /\ r.pc = "wh_update" /\ r.invoiceId = "A"
        /\ r.sends = 0 /\ r.status = 0
        /\ invoices["A"].status = "pending"

\* C15: a process started without the Stripe secret key, or without store
\* credentials (no service account and no ambient ones), exits at startup:
\* it is never serving and handles no request.
C15_StartupGated ==
  (proc.phase # "starting" /\ ~(proc.stripeKey /\ HasCredentials(proc)))
    => /\ proc.phase = "exited"
       /\ \A h \in DOMAIN reqs : reqs[h] = Idle

\* C16: every step of a create-checkout request whose body has no invoiceId,
\* or names an invoice that does not exist, leaves the invoices and Stripe's
\* sessions as they are; the first is answered 400 at once, the second 404
\* when the read of the invoice returns.
C16_ClientErrorsNoEffect ==
  [][ \A h \in DOMAIN reqs :
        LET r == reqs'[h]
            named == r.sent.invoiceId
        IN  (r # reqs[h] /\ r.route = "create-checkout")
            => /\ named = NULL
                    => /\ r.pc = "done" /\ r.status = 400
                       /\ r.reads = 0 /\ r.writes = 0 /\ r.sessionId = Unset
                       /\ invoices' = invoices /\ sessions' = sessions
               /\ (named # NULL /\ r.sent.json /\ ~Exists(named))
                    => /\ r.pc \in {"cc_get", "done"}
                       /\ (r.pc = "done" /\ r.error = "none") => r.status = 404
                       /\ r.writes = 0 /\ r.sessionId = Unset
                       /\ invoices' = invoices /\ sessions' = sessions
    ]_vars

\* A request naming the invoice X, which does not exist, was answered 404
\* after one read: no session, the store untouched.
C16_Witness ==
  \E h \in DOMAIN reqs :
    LET r == reqs[h]
    IN  /\ r.route = "create-checkout" /\ IsDone(r) /\ r.sent.invoiceId = Missing
        /\ r.status = 404 /\ r.reads = 1 /\ r.writes = 0
        /\ sessions = << >>
        /\ invoices["A"] = PendingInvoice

\* The responses a webhook delivery has got: none while its handler runs,
\* exactly one once it is finished.
OneResponse(r) ==
  IF IsDone(r) THEN r.sends = 1 /\ r.status \in {200, 400, 500}
  ELSE r.sends = 0 /\ r.status = 0

\* Every delivery a handler works on is answered eventually.
EveryDeliveryAnswered ==
  \A h \in OneHandler :
    (IsWebhook(reqs[h]) /\ ~IsDone(reqs[h])) ~> IsDone(reqs[h])

\* C17 as stated: a delivery gets exactly one response; it is 4xx exactly when
\* the delivery was not verified, 2xx when the dispatch completed, and 5xx
\* exactly when a store call of the resolution or the update failed.
OutcomeAsStated ==
  \A h \in DOMAIN reqs :
    LET r == reqs[h]
    IN  IsWebhook(r)
        => /\ OneResponse(r)
           /\ r.status = 400 => r.verified # "ok"
           /\ r.status = 200 => (r.verified = "ok" /\ r.dispatched /\ r.error = "none")
           /\ r.status = 500 => (r.verified = "ok" /\ r.dispatched /\ r.error # "none")
Outcome ==
  \A h \in DOMAIN reqs :
    LET r == reqs[h]
    IN  IsWebhook(r)
        => /\ OneResponse(r)
           /\ r.status = 400 => r.verified # "ok"
           /\ r.status = 200 => (r.verified = "ok" /\ r.dispatched /\ r.error = "none")
           /\ r.status = 500
                => \/ r.verified = "ok" /\ r.dispatched /\ r.error # "none"
                   \/ webhookSecret = NULL /\ r.verified = "no" /\ ~r.dispatched

C18_PaymentSucceededApplied ==
  \A h \in DOMAIN reqs :
    LET r == reqs[h]
    IN  (/\ IsWebhook(r) /\ r.verified = "ok" /\ r.sent.type = PaymentSucceeded
         /\ r.sent.invoiceId # NULL /\ Exists(r.sent.invoiceId)
         /\ IsDone(r) /\ r.status = 200)
        => invoices[r.sent.invoiceId].status = "paid"

\* C19: no step changes the checkoutUrl or the stripeSessionId of an invoice
\* that has them set.
C19_SessionFieldsSetOnce ==
  [][ \A d \in DOMAIN invoices :
        invoices[d].stripeSessionId # Unset
          => /\ invoices'[d].stripeSessionId = invoices[d].stripeSessionId
             /\ invoices'[d].checkoutUrl = invoices[d].checkoutUrl ]_vars

\* C20: every step of a webhook delivery changes at most one invoice, and a
\* delivery makes at most one write: by metadata no query and, once it is
\* acknowledged, exactly one update; by session id one query and at most one
\* update, also when several invoices store that session id; a delivery that
\* is rejected or of an unhandled type makes no store call at all.
C20_AtMostOneWrite ==
  [][ \A h \in DOMAIN reqs :
        LET r == reqs'[h]
            changed == { d \in DOMAIN invoices : invoices'[d] # invoices[d] }
        IN  (r # reqs[h] /\ IsWebhook(r))
            => /\ Cardinality(changed) <= 1
               /\ changed # {} => changed = {r.wrote}
               /\ r.writes <= 1 /\ r.reads <= 1
               /\ IF VerifiedCompleted(r)
                  THEN IF r.sent.invoiceId # NULL
                       THEN /\ r.reads = 0
                            /\ (r.pc = "done" /\ r.status = 200) => r.writes = 1
                       ELSE /\ (r.pc = "done" /\ r.error = "none") => r.reads = 1
                            /\ r.writes = 1
                                 => invoices[r.wrote].stripeSessionId = r.sent.sessionId
                  ELSE /\ r.pc = "done" /\ r.reads = 0 /\ r.writes = 0
                       /\ invoices' = invoices
    ]_vars

\* Invoices A and B both store session 1; its event came without metadata and
\* was acknowledged after one query and one write: one of the two is paid, the
\* other still pending.
C20_Witness ==
  \E h \in DOMAIN reqs :
    LET r == reqs[h]
    IN  /\ VerifiedCompleted(r) /\ IsDone(r) /\ r.status = 200
        /\ r.sent.invoiceId = NULL /\ r.sent.sessionId = 1
        /\ r.reads = 1 /\ r.writes = 1
        /\ "B" \in DOMAIN invoices
        /\ invoices["A"].stripeSessionId = 1 /\ invoices["B"].stripeSessionId = 1
        /\ \E d \in {"A", "B"} :
             /\ invoices[d].status = "paid"
             /\ \A e \in {"A", "B"} \ {d} : invoices[e].status = "pending"

\* C21: for a webhook request whose content type is JSON and whose body is
\* empty, the body parser's hook leaves a rawBody that is present (and of
\* length zero) on the request, and the request is answered with an error.
C21_EmptyBodyCaptured ==
  \A h \in DOMAIN reqs :
    LET r == reqs[h]
        mw == JsonMiddleware(<< >>, JsonType)
    IN  (IsWebhook(r) /\ r.sent.empty /\ r.sent.json)
        => /\ mw.rawBody.present /\ Len(mw.rawBody.buf) = 0
           /\ IsDone(r) /\ r.status >= 400

ChangedFields(d) == { f \in DOMAIN invoices[d] : invoices'[d][f] # invoices[d][f] }

\* C23: a step of a create-checkout request changes at most checkoutUrl,
\* stripeSessionId and updatedAt, and only of the invoice the request names; a
\* create-checkout answered other than 2xx has written nothing, and the step
\* that answers it changes no invoice.  An invoice becomes paid only in a
\* step of a verified checkout-completed webhook or of mark-paid, and
\* paymentInfo changes only in a step of such a webhook.
C23_WritersFrame ==
  [][ /\ \A h \in DOMAIN reqs :
           LET r == reqs'[h]
           IN  (r # reqs[h] /\ r.route = "create-checkout")
               => /\ \A d \in DOMAIN invoices :
                       /\ ChangedFields(d) \subseteq {"checkoutUrl", "stripeSessionId", "updatedAt"}
                       /\ ChangedFields(d) # {} => d = r.invoiceId
                  /\ (IsDone(r) /\ r.status # 200)
                       => (r.writes = 0 /\ invoices' = invoices)
      /\ \A d \in DOMAIN invoices :
           /\ (invoices[d].status # "paid" /\ invoices'[d].status = "paid")
                => \E h \in DOMAIN reqs :
                     /\ reqs'[h] # reqs[h]
                     /\ VerifiedCompleted(reqs'[h]) \/ reqs'[h].route = "mark-paid"
           /\ "paymentInfo" \in ChangedFields(d)
                => \E h \in DOMAIN reqs :
                     reqs'[h] # reqs[h] /\ VerifiedCompleted(reqs'[h])
    ]_vars

\* A create-checkout for invoice A, which a webhook had marked paid before,
\* was answered 200: A holds the new session and is still paid, with the
\* paymentInfo of the webhook.
C23_Witness ==
  \E h \in DOMAIN reqs :
    LET r == reqs[h]
    IN  /\ r.route = "create-checkout" /\ IsDone(r) /\ r.status = 200
        /\ r.wrote = "A" /\ invoices["A"].stripeSessionId = r.replySession
        /\ invoices["A"].status = "paid"
        /\ invoices["A"].paymentInfo # NoPayment

\* C24: the session Stripe creates for a create-checkout of invoice I is a new
\* one whose metadata names I; the request answered 200 returns the id of
\* that session, and its write has stored the same id on I; and the step that
\* acknowledges a verified checkout-completed delivery of a created session,
\* carrying that session's metadata, leaves I paid by that session and every
\* other invoice as it was.
C24_CreateThenConfirm ==
  [][ \A h \in DOMAIN reqs :
        LET q == reqs[h]
            r == reqs'[h]
            k == r.sent.sessionId
        IN  /\ (r.route = "create-checkout" /\ q.pc = "cc_stripe" /\ r.pc = "cc_update")
                 => /\ r.sessionId \notin DOMAIN sessions
                    /\ r.sessionId \in DOMAIN sessions'
                    /\ sessions'[r.sessionId] = r.invoiceId
            /\ (r # q /\ r.route = "create-checkout" /\ IsDone(r) /\ r.status = 200)
                 => /\ r.replySession = r.sessionId
                    /\ sessions[r.replySession] = r.invoiceId
                    /\ invoices'[r.invoiceId].stripeSessionId = r.replySession
            /\ (/\ r # q /\ VerifiedCompleted(r) /\ IsDone(r) /\ r.status = 200
                /\ k \in DOMAIN sessions /\ r.sent.invoiceId = sessions[k])
                 => /\ invoices'[sessions[k]].status = "paid"
                    /\ invoices'[sessions[k]].paymentInfo.stripeSessionId = k
                    /\ \A d \in DOMAIN invoices \ {sessions[k]} : invoices'[d] = invoices[d]
    ]_vars

\* A create-checkout for invoice B made a session, and that session's
\* completed checkout was delivered and acknowledged: B is paid by it, and
\* invoice A, which exists too, is still pending.
C24_Witness ==
  \E h \in DOMAIN reqs :
    LET r == reqs[h]
        k == r.sent.sessionId
    IN  /\ VerifiedCompleted(r) /\ IsDone(r) /\ r.status = 200
        /\ k \in DOMAIN sessions /\ sessions[k] = "B" /\ r.sent.invoiceId = "B"
        /\ "B" \in DOMAIN invoices
        /\ invoices["B"].stripeSessionId = k
        /\ invoices["B"].status = "paid"
        /\ invoices["B"].paymentInfo.stripeSessionId = k
        /\ invoices["A"].status = "pending"

\* C25, at the step that makes it true or false: when the webhook marks paid
\* an invoice that stores a stripeSessionId, by an event of a session that
\* create-checkout made for that invoice, the paymentInfo.stripeSessionId it
\* writes equals the invoice's stripeSessionId.
C25_PaidSessionConsistent ==
  [][ \A h \in DOMAIN reqs :
        LET r == reqs'[h]
            d == r.wrote
            k == r.sent.sessionId
        IN  (/\ VerifiedCompleted(r) /\ r.writes = reqs[h].writes + 1
             /\ k \in DOMAIN sessions /\ sessions[k] = d
             /\ invoices'[d].stripeSessionId # Unset)
            => /\ invoices'[d].status = "paid"
               /\ invoices'[d].paymentInfo.stripeSessionId = invoices'[d].stripeSessionId
    ]_vars

====
